---- MODULE Spec2Model ----
(***************************************************************************)
(* Model of the airport check-in script (src/main.py).                     *)
(*                                                                         *)
(* Text is modelled as a sequence of symbols.  A symbol is one character   *)
(* ("a", " ", "\n", "*", "1") or one fixed piece of text of the program    *)
(* (the phrase 已经签到, "::error::") that no input character equals; the   *)
(* program's Chinese literals are written as ASCII symbols, each with the  *)
(* literal it stands for in a comment.  String concatenation is \o, and    *)
(* "x in s" on strings is Contains.                                        *)
(***************************************************************************)
EXTENDS Integers, Sequences, FiniteSets, TLC

VARIABLES
    environ,        \* os.environ: URL, CONFIG, GITHUB_OUTPUT
    config_str,     \* argument of a direct parse_config call
    parsed,         \* what that call returned or raised
    accounts,       \* AirportCheckin.accounts
    session,        \* AirportCheckin.session: owner of the cookie it holds
    idx,            \* number of accounts batch_checkin has finished
    pc,             \* position of the program
    results,        \* the results list of batch_checkin / main
    calls,          \* requests sent through session.post, in order
    authOk,         \* per finished account: did its login exchange yield ret == 1
    lastLogin,      \* login response of the account processed last
    lastCheckin,    \* checkin response of the account processed last
    now,            \* clock reading used by format_results
    report,         \* formatted_result
    stdout,         \* lines printed by main
    outfile,        \* text appended to the GITHUB_OUTPUT file
    exitCode,       \* process exit status
    exc             \* the exception in flight, if one left its function

vars == <<environ, config_str, parsed, accounts, session, idx, pc, results,
          calls, authOk, lastLogin, lastCheckin, now, report, stdout,
          outfile, exitCode, exc>>

----------------------------------------------------------------------------
(* Bounds *)

MaxConfigLen == 7       \* characters of a parse_config argument
MaxAccounts == 2        \* accounts handed to batch_checkin
MaxOutcomes == 2        \* results handed to a direct format_results call
MaxConfigLines == 4     \* lines of the CONFIG variable main is started with

----------------------------------------------------------------------------
(* Text *)

Letters == {"a", "b"}
Whitespace == {" ", "\n"}
LineBreaks == {"\n"}
ConfigChars == Letters \cup Whitespace

StrUpTo(alphabet, n) == UNION {[1..k -> alphabet] : k \in 0..n}

Contains(hay, needle) ==
    \E i \in 0..(Len(hay) - Len(needle)) :
        SubSeq(hay, i + 1, i + Len(needle)) = needle

RECURSIVE LStrip(_)
LStrip(s) ==
    IF s = <<>> THEN <<>>
    ELSE IF Head(s) \in Whitespace THEN LStrip(Tail(s)) ELSE s

RECURSIVE RStrip(_)
RStrip(s) ==
    IF s = <<>> THEN <<>>
    ELSE IF s[Len(s)] \in Whitespace THEN RStrip(SubSeq(s, 1, Len(s) - 1)) ELSE s

\* str.strip()
Strip(s) == RStrip(LStrip(s))

RECURSIVE SplitFrom(_, _, _)
SplitFrom(s, i, cur) ==
    IF i > Len(s) THEN (IF cur = <<>> THEN <<>> ELSE <<cur>>)
    ELSE IF s[i] \in LineBreaks THEN <<cur>> \o SplitFrom(s, i + 1, <<>>)
    ELSE SplitFrom(s, i + 1, Append(cur, s[i]))

\* str.splitlines(): a final line break opens no further line
SplitLines(s) == SplitFrom(s, 1, <<>>)

RECURSIVE Join(_, _)
\* sep.join(lines)
Join(lines, sep) ==
    IF lines = <<>> THEN <<>>
    ELSE IF Len(lines) = 1 THEN lines[1]
    ELSE lines[1] \o sep \o Join(Tail(lines), sep)

----------------------------------------------------------------------------
(* Data model *)

Account(email, password) == [email |-> email, password |-> password]

----------------------------------------------------------------------------
(* parse_config *)

Returned(v) == [raised |-> FALSE, value |-> v, detail |-> <<>>]
Raised(detail) == [raised |-> TRUE, value |-> <<>>, detail |-> detail]

\* '配置文件格式错误：账号和密码必须成对出现'
ConfigFormatError == <<"config format error: accounts and passwords must come in pairs">>

PairUp(configs) ==
    [k \in 1..(Len(configs) \div 2) |->
        Account(Strip(configs[2 * k - 1]), Strip(configs[2 * k]))]

\* parse_config without the len(configs) == 0 test
parse_config_empty_ok(s) ==
    IF s = <<>> THEN Returned(<<>>)
    ELSE LET configs == SplitLines(Strip(s)) IN
         IF Len(configs) % 2 # 0
         THEN Raised(ConfigFormatError)
         ELSE Returned(PairUp(configs))

parse_config_nostrip(s) ==
    IF s = <<>> THEN Returned(<<>>)
    ELSE LET configs == SplitLines(s) IN
         IF Len(configs) % 2 # 0 \/ Len(configs) = 0
         THEN Raised(ConfigFormatError)
         ELSE Returned(PairUp(configs))

parse_config(s) ==
    IF s = <<>> THEN Returned(<<>>)
    ELSE LET configs == SplitLines(Strip(s)) IN
         IF Len(configs) % 2 # 0 \/ Len(configs) = 0
         THEN Raised(ConfigFormatError)
         ELSE Returned(PairUp(configs))

----------------------------------------------------------------------------
(* JSON / Python values: a tag and the text str() gives *)

JAbsent == [t |-> "absent", v |-> <<>>]           \* key not in the body
JNull == [t |-> "null", v |-> <<"None">>]         \* null / None
JNum(digits) == [t |-> "num", v |-> digits]
JStr(s) == [t |-> "str", v |-> s]

\* bool(x)
Truthy(x) ==
    CASE x.t = "str" -> x.v # <<>>
      [] x.t = "num" -> x.v # <<"0">>
      [] OTHER -> FALSE

\* str(x), as an f-string renders it
PyStr(x) == x.v

CheckinResult(account, success, message, error) ==
    [account |-> account, success |-> success, message |-> message,
     error |-> error]

----------------------------------------------------------------------------
(* What the service can answer to one request *)

RetValues == {JAbsent, JNum(<<"0">>), JNum(<<"1">>)}

AlreadyCheckedIn == "already-checked-in"          \* '已经签到'
DefaultMessage == <<"checkin done">>              \* '签到完成'

MsgValues ==
    {JAbsent, JNull, JNum(<<"0">>), JNum(<<"5">>),
     JStr(<<"got 10MB">>),
     JStr(<<"you have ", AlreadyCheckedIn, " today">>),
     JStr(<<"first line", "\n", "EOF", "\n", "last line">>)}

FailureKinds == {"http_error", "bad_json", "non_object"}

Response(kind, ret, msg, cookie) ==
    [kind |-> kind, ret |-> ret, msg |-> msg, cookie |-> cookie]

\* no response at all, or a response that may carry Set-Cookie
LoginResponses ==
    {Response("exception", JAbsent, JAbsent, FALSE)}
    \cup {Response(k, JAbsent, JAbsent, c) : k \in FailureKinds, c \in BOOLEAN}
    \cup {Response("object", r, JAbsent, c) : r \in RetValues, c \in BOOLEAN}

CheckinResponses ==
    {Response("exception", JAbsent, JAbsent, FALSE)}
    \cup {Response(k, JAbsent, JAbsent, c) : k \in FailureKinds, c \in BOOLEAN}
    \cup {Response("object", r, m, c) :
            r \in RetValues, m \in MsgValues, c \in BOOLEAN}

----------------------------------------------------------------------------
(* AirportCheckin *)

\* session.post(...); response.raise_for_status(); response.json()
FetchJson(resp) ==
    CASE resp.kind = "exception" -> Raised(<<"ConnectionError">>)
      [] resp.kind = "http_error" -> Raised(<<"HTTPError">>)
      [] resp.kind = "bad_json" -> Raised(<<"JSONDecodeError">>)
      [] OTHER -> Returned(resp)

\* result.get(key) on the decoded body
GetKey(resp, key) ==
    IF resp.kind = "non_object"
    THEN Raised(<<"'list' object has no attribute 'get'">>)
    ELSE Returned(resp[key])

\* the session's cookie after a request made for account number n
CookieAfter(cookie, resp, n) == IF resp.cookie THEN n ELSE cookie

login_trusting(resp) ==
    LET body == FetchJson(resp) IN
    IF body.raised THEN FALSE
    ELSE LET ret == GetKey(body.value, "ret") IN
         IF ret.raised THEN FALSE ELSE ret.value # JNum(<<"0">>)

login(resp) ==
    LET body == FetchJson(resp) IN
    IF body.raised THEN FALSE
    ELSE LET ret == GetKey(body.value, "ret") IN
         IF ret.raised THEN FALSE ELSE ret.value = JNum(<<"1">>)

\* checkin, lines 66-72: login returned False; message '登录失败'
checkin_login_failed(account) ==
    Returned(CheckinResult(account.email, FALSE, JStr(<<"login failed">>),
                           JStr(<<"Authentication failed">>)))

checkin_except_requests_only(account, detail) ==
    IF detail \in {<<"ConnectionError">>, <<"HTTPError">>}
    THEN Returned(CheckinResult(account.email, FALSE, JStr(<<"checkin failed">>),
                                JStr(<<"checkin exception: ">> \o detail)))
    ELSE Raised(detail)

\* checkin, lines 99-107: except Exception; message '签到失败', error
\* '签到异常: ' followed by str(e)
checkin_except(account, detail) ==
    Returned(CheckinResult(account.email, FALSE, JStr(<<"checkin failed">>),
                           JStr(<<"checkin exception: ">> \o detail)))

\* '已经签到' in message
PhraseIn(message) ==
    IF message.t = "str"
    THEN Returned(Contains(message.v, <<AlreadyCheckedIn>>))
    ELSE Raised(<<"argument of type 'int' is not iterable">>)

checkin_request_strict(account, resp) ==
    LET body == FetchJson(resp) IN
    IF body.raised THEN checkin_except(account, body.detail)
    ELSE
    LET msg == GetKey(body.value, "msg") IN
    IF msg.raised THEN checkin_except(account, msg.detail)
    ELSE
    LET message == IF msg.value = JAbsent THEN JStr(DefaultMessage) ELSE msg.value
        success == body.value.ret = JNum(<<"1">>)
    IN  Returned(CheckinResult(account.email, success, message, JNull))

\* checkin, lines 76-97: the checkin exchange and its classification
checkin_request(account, resp) ==
    LET body == FetchJson(resp) IN
    IF body.raised THEN checkin_except(account, body.detail)
    ELSE
    LET msg == GetKey(body.value, "msg") IN
    IF msg.raised THEN checkin_except(account, msg.detail)
    ELSE
    LET message == IF msg.value = JAbsent THEN JStr(DefaultMessage) ELSE msg.value
        success == body.value.ret = JNum(<<"1">>)
    IN  IF ~success /\ Truthy(message)
        THEN LET found == PhraseIn(message) IN
             IF found.raised THEN checkin_except(account, found.detail)
             ELSE Returned(CheckinResult(account.email, found.value, message, JNull))
        ELSE Returned(CheckinResult(account.email, success, message, JNull))

----------------------------------------------------------------------------
(* Result formatter *)

Digits == <<"0", "1", "2", "3", "4", "5", "6", "7", "8", "9">>

RECURSIVE IntStr(_)
\* str(n) of a natural number
IntStr(n) ==
    IF n < 10 THEN <<Digits[n + 1]>>
    ELSE IntStr(n \div 10) \o <<Digits[(n % 10) + 1]>>

mask_email_identity(email) == email

mask_email(email) == <<"*", "*", "*", "*", "*">>

SuccessCount_all(rs) == Len(rs)

\* sum(1 for r in results if r.success)
SuccessCount(rs) == Cardinality({i \in 1..Len(rs) : rs[i].success})

\* the lines format_results appends for the i-th result
ResultBlock(i, result) ==
    << IntStr(i) \o <<".", " ">> \o mask_email(result.account),
       <<"   status: ">> \o (IF result.success THEN <<"OK success">>
                                               ELSE <<"X failure">>),
       <<"   message: ">> \o PyStr(result.message) >>
    \o (IF Truthy(result.error)
        THEN << <<"   error: ">> \o PyStr(result.error) >>
        ELSE <<>>)
    \o << <<>> >>

RECURSIVE ResultBlocks(_, _)
ResultBlocks(rs, i) ==
    IF i > Len(rs) THEN <<>>
    ELSE ResultBlock(i, rs[i]) \o ResultBlocks(rs, i + 1)

\* '没有签到结果'
NoResultsText == <<"no checkin results">>

\* format_results; ts is datetime.now(beijing_tz) as strftime renders it.
\* Title '机场签到结果 - {timestamp}', counts '总计: {N} 个账号，成功: {S} 个',
\* status '✅ 成功' / '❌ 失败', labels '状态', '消息', '错误'.
format_results(ts, rs) ==
    IF rs = <<>> THEN NoResultsText
    ELSE Join(<< <<"checkin results - ">> \o ts,
                 <<"total: ">> \o IntStr(Len(rs)) \o <<" accounts, succeeded: ">>
                    \o IntStr(SuccessCount(rs)) \o <<" of them">> >>
              \o ResultBlocks(rs, 1),
              <<"\n">>)

Timestamps == {<<"2024-01-01 08:00:00">>, <<"2024-01-02 08:00:00">>}

----------------------------------------------------------------------------
(* Values of variables a specification does not use *)

NotCalled == [raised |-> FALSE, value |-> <<>>, detail |-> <<"not called">>]
NoResponse == Response("none", JAbsent, JAbsent, FALSE)
NoEnviron == [URL |-> <<>>, CONFIG |-> <<>>, GITHUB_OUTPUT |-> <<>>]

BatchIdle ==
    /\ accounts = <<>>
    /\ session = 0
    /\ idx = 0
    /\ results = <<>>
    /\ calls = <<>>
    /\ authOk = <<>>
    /\ lastLogin = NoResponse
    /\ lastCheckin = NoResponse
    /\ exc = <<>>

MainIdle ==
    /\ environ = NoEnviron
    /\ now = <<>>
    /\ report = <<>>
    /\ stdout = <<>>
    /\ outfile = <<>>
    /\ exitCode = "running"

----------------------------------------------------------------------------
(* Specification of direct parse_config calls *)

InitParse ==
    /\ config_str \in StrUpTo(ConfigChars, MaxConfigLen)
    /\ parsed = NotCalled
    /\ pc = "parse"
    /\ BatchIdle
    /\ MainIdle

CallParseConfig ==
    /\ pc = "parse"
    /\ parsed' = parse_config(config_str)
    /\ pc' = "parsed"
    /\ UNCHANGED <<environ, config_str, accounts, session, idx, results, calls,
                   authOk, lastLogin, lastCheckin, now, report, stdout,
                   outfile, exitCode, exc>>

NextParse == CallParseConfig

SpecParse == InitParse /\ [][NextParse]_vars

----------------------------------------------------------------------------
(* batch_checkin: one login exchange and at most one checkin exchange per   *)
(* account, in the order of self.accounts                                   *)

Call(op, n) == [op |-> op, account |-> n]

mainVars == <<environ, config_str, parsed, now, report, stdout, outfile, exitCode>>

\* Login, but the loop of batch_checkin stops at the first failed login
Login_stop_on_failure(resp) ==
    /\ pc = "login"
    /\ idx < Len(accounts)
    /\ calls' = Append(calls, Call("login", idx + 1))
    /\ session' = CookieAfter(session, resp, idx + 1)
    /\ lastLogin' = resp
    /\ lastCheckin' = NoResponse
    /\ authOk' = Append(authOk, resp.kind = "object" /\ resp.ret = JNum(<<"1">>))
    /\ IF login(resp)
       THEN /\ pc' = "checkin"
            /\ UNCHANGED <<results, idx, exc>>
       ELSE LET out == checkin_login_failed(accounts[idx + 1]) IN
            /\ results' = Append(results, out.value)
            /\ idx' = idx + 1
            /\ pc' = "returned"
            /\ UNCHANGED exc
    /\ UNCHANGED <<accounts, mainVars>>

\* Login, but a failed login is tried a second time
Login_retry(resp) ==
    /\ pc = "login"
    /\ idx < Len(accounts)
    /\ calls' = IF login(resp)
                THEN Append(calls, Call("login", idx + 1))
                ELSE calls \o <<Call("login", idx + 1), Call("login", idx + 1)>>
    /\ session' = CookieAfter(session, resp, idx + 1)
    /\ lastLogin' = resp
    /\ lastCheckin' = NoResponse
    /\ authOk' = Append(authOk, resp.kind = "object" /\ resp.ret = JNum(<<"1">>))
    /\ IF login(resp)
       THEN /\ pc' = "checkin"
            /\ UNCHANGED <<results, idx, exc>>
       ELSE LET out == checkin_login_failed(accounts[idx + 1]) IN
            /\ results' = Append(results, out.value)
            /\ idx' = idx + 1
            /\ pc' = "login"
            /\ UNCHANGED exc
    /\ UNCHANGED <<accounts, mainVars>>

\* checkin(account) up to the return of self.login(account)
Login(resp) ==
    /\ pc = "login"
    /\ idx < Len(accounts)
    /\ calls' = Append(calls, Call("login", idx + 1))
    /\ session' = CookieAfter(session, resp, idx + 1)
    /\ lastLogin' = resp
    /\ lastCheckin' = NoResponse
    /\ authOk' = Append(authOk, resp.kind = "object" /\ resp.ret = JNum(<<"1">>))
    /\ IF login(resp)
       THEN /\ pc' = "checkin"
            /\ UNCHANGED <<results, idx, exc>>
       ELSE LET out == checkin_login_failed(accounts[idx + 1]) IN
            /\ results' = Append(results, out.value)
            /\ idx' = idx + 1
            /\ pc' = "login"
            /\ UNCHANGED exc
    /\ UNCHANGED <<accounts, mainVars>>

\* Checkin, but batch_checkin puts the result in front of the list
Checkin_prepend(resp) ==
    /\ pc = "checkin"
    /\ calls' = Append(calls, Call("checkin", idx + 1))
    /\ session' = CookieAfter(session, resp, idx + 1)
    /\ lastCheckin' = resp
    /\ LET out == checkin_request(accounts[idx + 1], resp) IN
       IF out.raised
       THEN /\ pc' = "raised"
            /\ exc' = out.detail
            /\ UNCHANGED <<results, idx>>
       ELSE /\ results' = <<out.value>> \o results
            /\ idx' = idx + 1
            /\ pc' = "login"
            /\ UNCHANGED exc
    /\ UNCHANGED <<accounts, authOk, lastLogin, mainVars>>

\* checkin(account) from the checkin request to its return
Checkin(resp) ==
    /\ pc = "checkin"
    /\ calls' = Append(calls, Call("checkin", idx + 1))
    /\ session' = CookieAfter(session, resp, idx + 1)
    /\ lastCheckin' = resp
    /\ LET out == checkin_request(accounts[idx + 1], resp) IN
       IF out.raised
       THEN /\ pc' = "raised"
            /\ exc' = out.detail
            /\ UNCHANGED <<results, idx>>
       ELSE /\ results' = Append(results, out.value)
            /\ idx' = idx + 1
            /\ pc' = "login"
            /\ UNCHANGED exc
    /\ UNCHANGED <<accounts, authOk, lastLogin, mainVars>>

\* the for loop is exhausted: return results
BatchReturn ==
    /\ pc = "login"
    /\ idx = Len(accounts)
    /\ pc' = "returned"
    /\ UNCHANGED <<accounts, session, idx, results, calls, authOk, lastLogin,
                   lastCheckin, exc, mainVars>>

AccountPool == {Account(<<"a">>, <<"p">>), Account(<<"b">>, <<"q">>)}

InitBatch ==
    /\ accounts \in StrUpTo(AccountPool, MaxAccounts)
    /\ session = 0
    /\ idx = 0
    /\ results = <<>>
    /\ calls = <<>>
    /\ authOk = <<>>
    /\ lastLogin = NoResponse
    /\ lastCheckin = NoResponse
    /\ exc = <<>>
    /\ pc = "login"
    /\ config_str = <<>>
    /\ parsed = NotCalled
    /\ MainIdle

NextBatch ==
    \/ \E resp \in LoginResponses : Login(resp)
    \/ \E resp \in CheckinResponses : Checkin(resp)
    \/ BatchReturn

SpecBatch == InitBatch /\ [][NextBatch]_vars

----------------------------------------------------------------------------
(* Properties of batch_checkin (SpecBatch) *)

\* an account has been finished, and lastLogin / lastCheckin are its exchanges
LastFinished == idx > 0 /\ pc \in {"login", "returned"}

\* the outcome that account's own exchanges give, whatever came before it
OwnOutcome(account, loginResp, checkinResp) ==
    IF login(loginResp)
    THEN checkin_request(account, checkinResp).value
    ELSE checkin_login_failed(account).value

C1_State ==
    /\ pc # "raised"
    /\ Len(results) = idx
    /\ pc = "returned" => Len(results) = Len(accounts)
    /\ LastFinished =>
          results[idx] = OwnOutcome(accounts[idx], lastLogin, lastCheckin)
    /\ (/\ pc = "returned"
        /\ Len(accounts) = 2
        /\ ~authOk[1]
        /\ authOk[2]
        /\ lastCheckin.kind = "object"
        /\ lastCheckin.ret = JNum(<<"1">>)
        /\ lastCheckin.msg.t = "str")
       => results =
            << [account |-> accounts[1].email, success |-> FALSE,
                message |-> JStr(<<"login failed">>),
                error |-> JStr(<<"Authentication failed">>)],
               [account |-> accounts[2].email, success |-> TRUE,
                message |-> lastCheckin.msg, error |-> JNull] >>

C1_Step ==
    \A i \in 1..Len(results) : Len(results') >= i /\ results'[i] = results[i]

\* C1: a failure on one credential (login rejected, login transport error,
\* checkin exception) never stops the batch and never changes the Outcome of
\* another credential: every credential is processed, each Outcome is the one
\* its own exchanges give, a recorded Outcome is never altered, and for
\* [A, B] with A's login failing and B succeeding the Outcomes are
\* [{A, false, 'Authentication failed'}, {B, true, B's upstream message}].
C1_FailureIsolation == [](C1_State) /\ [][C1_Step]_vars

C1_Witness ==
    /\ pc = "returned"
    /\ Len(accounts) = 2
    /\ lastLogin.kind = "object"
    /\ ~authOk[1]
    /\ authOk[2]
    /\ results[1].error = JStr(<<"Authentication failed">>)
    /\ results[2].success
    /\ results[2].message = JStr(<<"got 10MB">>)

\* C2: batch_checkin returns exactly one Outcome per Credential, in input
\* order: as many Outcomes as credentials, the i-th carrying the i-th
\* credential's identifier.
C2_OneOutcomePerCredentialInOrder ==
    /\ Len(results) <= Len(accounts)
    /\ \A i \in 1..Len(results) : results[i].account = accounts[i].email
    /\ pc = "returned" =>
          /\ Len(results) = Len(accounts)
          /\ [i \in 1..Len(results) |-> results[i].account]
               = [i \in 1..Len(accounts) |-> accounts[i].email]

C2_Witness ==
    /\ pc = "returned"
    /\ Len(results) = 2
    /\ results[1].account = <<"b">>
    /\ results[2].account = <<"a">>
    /\ results[1].success
    /\ ~results[2].success

\* C3: when the login exchange does not yield ret == 1 (another ret value,
\* transport exception, non-2xx status, unparseable body), the Outcome is
\* {false, 'login failed', 'Authentication failed'} and no request goes to the
\* checkin endpoint for that credential.
C3_LoginFailureOutcome ==
    /\ pc = "checkin" => authOk[idx + 1]
    /\ \A i \in 1..Len(results) :
          ~authOk[i] =>
             /\ results[i] = [account |-> accounts[i].email, success |-> FALSE,
                              message |-> JStr(<<"login failed">>),
                              error |-> JStr(<<"Authentication failed">>)]
             /\ \A k \in 1..Len(calls) : calls[k] # Call("checkin", i)

C3_Witness ==
    /\ LastFinished
    /\ idx = 2
    /\ lastLogin.kind = "exception"
    /\ results[2].message = JStr(<<"login failed">>)
    /\ authOk[1]
    /\ calls = <<Call("login", 1), Call("checkin", 1), Call("login", 2)>>

\* the checkin exchange of the last finished account came after a login that
\* yielded ret == 1
CheckedIn == LastFinished /\ authOk[idx] /\ lastCheckin.kind # "none"

\* the exception the checkin exchange raises in checkin(), if it raises one
RaisesInCheckin(resp) ==
    \/ resp.kind \in {"exception", "http_error", "bad_json", "non_object"}
    \/ /\ resp.kind = "object"
       /\ resp.ret # JNum(<<"1">>)
       /\ resp.msg.t = "num"
       /\ resp.msg.v # <<"0">>

ExceptionDetail(resp) ==
    CASE resp.kind = "exception" -> <<"ConnectionError">>
      [] resp.kind = "http_error" -> <<"HTTPError">>
      [] resp.kind = "bad_json" -> <<"JSONDecodeError">>
      [] resp.kind = "non_object" -> <<"'list' object has no attribute 'get'">>
      [] OTHER -> <<"argument of type 'int' is not iterable">>

IsCheckinFailed(r, resp) ==
    /\ r.success = FALSE
    /\ r.message = JStr(<<"checkin failed">>)
    /\ r.error.t = "str"
    /\ Contains(r.error.v, ExceptionDetail(resp))

NonStringMessage(resp) ==
    resp.kind = "object" /\ resp.msg.t \in {"null", "num"}

\* C4 as claimed: after a successful login, a transport exception, a non-2xx
\* status, an unparseable body, a body that is no JSON object and a body with
\* a non-string message all end in the Outcome {false, 'checkin failed', error
\* with the exception detail}, and nothing leaves checkin() as an exception.
C4_Original ==
    /\ pc # "raised"
    /\ (CheckedIn /\ (lastCheckin.kind # "object" \/ NonStringMessage(lastCheckin)))
          => IsCheckinFailed(results[idx], lastCheckin)

\* C4 as amended: nothing leaves checkin() as an exception; whenever the
\* checkin exchange raises (transport exception, non-2xx status, unparseable
\* body, a body that is no JSON object, or the phrase test on a non-zero number
\* message when ret != 1) the Outcome is {false, 'checkin failed', error with
\* the exception detail}; a non-string message that raises nothing (ret == 1,
\* or null) is carried into the Outcome as it is, with no error.
C4_CheckinFailureContained ==
    /\ pc # "raised"
    /\ (CheckedIn /\ RaisesInCheckin(lastCheckin))
          => IsCheckinFailed(results[idx], lastCheckin)
    /\ (CheckedIn /\ NonStringMessage(lastCheckin) /\ ~RaisesInCheckin(lastCheckin))
          => /\ results[idx].message = lastCheckin.msg
             /\ results[idx].error = JNull
             /\ results[idx].success = (lastCheckin.ret = JNum(<<"1">>))

C4_Witness ==
    /\ CheckedIn
    /\ idx = 2
    /\ lastCheckin.kind = "non_object"
    /\ results[2].message = JStr(<<"checkin failed">>)
    /\ results[2].error =
          JStr(<<"checkin exception: ", "'list' object has no attribute 'get'">>)

\* '已经签到' occurs in the message of the response
HasPhrase(resp) ==
    /\ resp.msg.t = "str"
    /\ \E i \in 1..Len(resp.msg.v) : resp.msg.v[i] = AlreadyCheckedIn

\* C5: for a checkin response received after a successful login, succeeded is
\* true exactly when ret == 1 or the message contains the "already checked
\* in" phrase; with ret != 1 and the phrase, the Outcome is a success that
\* carries the upstream message verbatim and no error.
C5_Reclassification ==
    (CheckedIn /\ lastCheckin.kind = "object") =>
        /\ results[idx].success
             <=> (lastCheckin.ret = JNum(<<"1">>) \/ HasPhrase(lastCheckin))
        /\ (lastCheckin.ret # JNum(<<"1">>) /\ HasPhrase(lastCheckin)) =>
             /\ results[idx].success
             /\ results[idx].message = lastCheckin.msg
             /\ results[idx].error = JNull

C5_Witness ==
    /\ CheckedIn
    /\ lastCheckin.kind = "object"
    /\ lastCheckin.ret = JNum(<<"0">>)
    /\ HasPhrase(lastCheckin)
    /\ results[idx].success
    /\ results[idx].message = JStr(<<"you have ", AlreadyCheckedIn, " today">>)

\* C6: the session a credential's login starts with holds nothing set while
\* an earlier credential was processed, and the cookie sent with a
\* credential's checkin request is one its own login set.
C6_FreshSession ==
    /\ (pc = "login" /\ idx < Len(accounts)) => session = 0
    /\ pc = "checkin" => session \in {0, idx + 1}

\* account i is past its login and the login yielded ret == 1
CheckinSent(i) == authOk[i] /\ i <= idx

\* the requests the accounts 1..n cause when processed one after the other:
\* a login request each, followed by a checkin request when CheckinSent
RECURSIVE RequestsOf(_)
RequestsOf(n) ==
    IF n = 0 THEN <<>>
    ELSE RequestsOf(n - 1) \o <<Call("login", n)>>
            \o (IF CheckinSent(n) THEN <<Call("checkin", n)>> ELSE <<>>)

\* C13: each credential causes exactly one login request and at most one
\* checkin request, exactly one if and only if its login succeeded; its login
\* request precedes its checkin request, and every request for credential i
\* is over before the first request for credential i+1; two accounts that
\* both log in give login1, checkin1, login2, checkin2.
C13_StrictSequencing ==
    /\ pc # "raised"
    /\ Len(authOk) = IF pc = "checkin" THEN idx + 1 ELSE idx
    /\ calls = RequestsOf(Len(authOk))
    /\ \A k \in 1..(Len(calls) - 1) : calls[k].account <= calls[k + 1].account
    /\ (pc = "returned" /\ Len(accounts) = 2 /\ authOk = <<TRUE, TRUE>>) =>
          calls = << [op |-> "login", account |-> 1],
                     [op |-> "checkin", account |-> 1],
                     [op |-> "login", account |-> 2],
                     [op |-> "checkin", account |-> 2] >>
    /\ pc = "returned" =>
          \A i \in 1..Len(accounts) :
             /\ Cardinality({k \in 1..Len(calls) :
                    calls[k] = [op |-> "login", account |-> i]}) = 1
             /\ Cardinality({k \in 1..Len(calls) :
                    calls[k] = [op |-> "checkin", account |-> i]})
                  = IF authOk[i] THEN 1 ELSE 0

C13_Witness ==
    /\ pc = "returned"
    /\ Len(accounts) = 2
    /\ authOk = <<TRUE, TRUE>>
    /\ Len(calls) = 4
    /\ calls[2] = Call("checkin", 1)
    /\ calls[3] = Call("login", 2)

----------------------------------------------------------------------------
(* Properties of parse_config (SpecParse) *)

\* what the reference gives for a non-empty argument whose lines are `lines`
AgreesWithLines(lines) ==
    LET n == Len(lines) IN
    /\ (n = 0 \/ n % 2 = 1) =>
          /\ parsed.raised
          /\ parsed.detail = ConfigFormatError
    /\ (n > 0 /\ n % 2 = 0) =>
          /\ ~parsed.raised
          /\ Len(parsed.value) = n \div 2
          /\ \A i \in 1..(n \div 2) :
                /\ parsed.value[i].email = Strip(lines[2 * i - 1])
                /\ parsed.value[i].password = Strip(lines[2 * i])

\* C7 as claimed: the empty string gives the empty sequence; otherwise, with
\* the lines of s, an odd or zero line count is the malformed-config error
\* and 2k lines give k credentials, the i-th made of the trimmed lines 2i-1
\* and 2i.
C7_Original ==
    pc = "parsed" =>
        IF config_str = <<>>
        THEN parsed = Returned(<<>>)
        ELSE AgreesWithLines(SplitLines(config_str))

\* C7 as amended: the same, the lines being those of s with the whitespace
\* (line breaks included) at its two ends removed first.
C7_ParseConfigReference ==
    pc = "parsed" =>
        IF config_str = <<>>
        THEN parsed = Returned(<<>>)
        ELSE AgreesWithLines(SplitLines(Strip(config_str)))

C7_Witness ==
    /\ pc = "parsed"
    /\ config_str = <<"a", "\n", "b", "\n", "b", "\n", "a">>
    /\ parsed = Returned(<<Account(<<"a">>, <<"b">>), Account(<<"b">>, <<"a">>)>>)

----------------------------------------------------------------------------
(* Specification of direct format_results calls *)

Identifiers == {<<"a", "b">>, <<"a">>, <<"c">>}

FormatMessages == {JStr(<<"got 10MB">>), JStr(<<"welcome ", "a", "b">>)}

FormatErrors == {JNull, JStr(<<"Authentication failed">>)}

FormatOutcomes ==
    {CheckinResult(id, ok, m, e) :
        id \in Identifiers, ok \in BOOLEAN, m \in FormatMessages,
        e \in FormatErrors}

InitFormat ==
    /\ results \in StrUpTo(FormatOutcomes, MaxOutcomes)
    /\ pc = "format"
    /\ accounts = <<>>
    /\ session = 0
    /\ idx = 0
    /\ calls = <<>>
    /\ authOk = <<>>
    /\ lastLogin = NoResponse
    /\ lastCheckin = NoResponse
    /\ exc = <<>>
    /\ config_str = <<>>
    /\ parsed = NotCalled
    /\ MainIdle

CallFormatResults ==
    /\ pc = "format"
    /\ \E ts \in Timestamps :
          /\ now' = ts
          /\ report' = format_results(ts, results)
    /\ pc' = "formatted"
    /\ UNCHANGED <<environ, config_str, parsed, accounts, session, idx, results,
                   calls, authOk, lastLogin, lastCheckin, stdout, outfile,
                   exitCode, exc>>

NextFormat == CallFormatResults

SpecFormat == InitFormat /\ [][NextFormat]_vars

----------------------------------------------------------------------------
(* Properties of format_results (SpecFormat) *)

\* rs with the identifiers replaced by ids, everything else kept
WithIdentifiers(rs, ids) ==
    [i \in 1..Len(rs) |-> [rs[i] EXCEPT !.account = ids[i]]]

AggregateLine(n, succeeded) ==
    <<"total: ">> \o IntStr(n) \o <<" accounts, succeeded: ">>
        \o IntStr(succeeded) \o <<" of them">>

\* C11 as claimed: for all Outcome sequences the output of format_results
\* contains the aggregate line for N = the length of the sequence and S =
\* the number of Outcomes with succeeded == true.
C11_Original ==
    pc = "formatted" =>
        Contains(report,
                 AggregateLine(Len(results),
                               Cardinality({i \in 1..Len(results) :
                                               results[i].success = TRUE})))

\* C11 as amended: for all non-empty Outcome sequences the second line of the
\* output is the aggregate line for N and S; for the empty sequence the
\* output is the fixed 'no results' text, which holds no aggregate line.
C11_AggregateLine ==
    pc = "formatted" =>
        IF results = <<>>
        THEN /\ report = <<"no checkin results">>
             /\ ~Contains(report, <<"total: ">>)
        ELSE /\ Len(SplitLines(report)) >= 2
             /\ SplitLines(report)[2] =
                   AggregateLine(Len(results),
                                 Cardinality({i \in 1..Len(results) :
                                                 results[i].success = TRUE}))

C11_Witness ==
    /\ pc = "formatted"
    /\ Len(results) = 2
    /\ results[1].success
    /\ ~results[2].success
    /\ Contains(report, <<"total: ", "2", " accounts, succeeded: ", "1", " of them">>)

----------------------------------------------------------------------------
(* main *)

\* "::warning::有 {failed} 个账号签到失败，{succeeded} 个账号签到成功"
WarningLine(failed, succeeded) ==
    <<"::warning::">> \o IntStr(failed) \o <<" accounts failed, ">>
        \o IntStr(succeeded) \o <<" accounts succeeded">>

\* "::notice::所有账号签到成功"
NoticeLine == <<"::notice::", "all accounts succeeded">>

\* "::error::程序执行失败: {e}"
ErrorLine(detail) == <<"::error::", "program failed: ">> \o detail

\* "错误: 未设置 URL 环境变量" / "错误: 未设置 CONFIG 环境变量"
MissingLine(name) == <<"error: environment variable not set: ", name>>

\* "解析到 {n} 个账号"
ParsedLine(n) == <<"parsed ">> \o IntStr(n) \o <<" accounts">>

\* "\n" + "="*50, "签到汇总:", "="*50
Banner == << <<"\n", "==========">>, <<"checkin summary:">>, <<"==========">> >>

SetOutputLine(text) == <<"::set-output name=result::">> \o text

OutputBlock(text) == <<"result<<EOF", "\n">> \o text \o <<"\n", "EOF", "\n">>

batchVars == <<session, idx, results, calls, authOk, lastLogin, lastCheckin>>

\* main, lines 189-207: the environment, parse_config, AirportCheckin(...)
MainStart ==
    /\ pc = "main"
    /\ IF ~Truthy(environ.URL)
       THEN /\ stdout' = Append(stdout, MissingLine("URL"))
            /\ exitCode' = "1"
            /\ pc' = "exited"
            /\ UNCHANGED <<accounts, exc>>
       ELSE IF ~Truthy(environ.CONFIG)
       THEN /\ stdout' = Append(stdout, MissingLine("CONFIG"))
            /\ exitCode' = "1"
            /\ pc' = "exited"
            /\ UNCHANGED <<accounts, exc>>
       ELSE LET got == parse_config(environ.CONFIG.v) IN
            IF got.raised
            THEN /\ exc' = got.detail
                 /\ pc' = "raised"
                 /\ UNCHANGED <<accounts, stdout, exitCode>>
            ELSE /\ accounts' = got.value
                 /\ stdout' = Append(stdout, ParsedLine(Len(got.value)))
                 /\ pc' = "login"
                 /\ UNCHANGED <<exc, exitCode>>
    /\ UNCHANGED <<environ, config_str, parsed, now, report, outfile, batchVars>>

MainReport_strict ==
    /\ pc = "returned"
    /\ \E ts \in Timestamps :
          LET text == format_results(ts, results)
              failed_count == Len(results) - SuccessCount(results)
              success_count == Len(results) - failed_count
          IN
          /\ now' = ts
          /\ report' = text
          /\ outfile' = IF Truthy(environ.GITHUB_OUTPUT)
                        THEN outfile \o OutputBlock(text)
                        ELSE outfile
          /\ stdout' = stdout \o Banner \o <<text>>
                \o (IF Truthy(environ.GITHUB_OUTPUT)
                    THEN <<>> ELSE <<SetOutputLine(text)>>)
                \o (IF failed_count > 0
                    THEN <<WarningLine(failed_count, success_count)>>
                    ELSE <<NoticeLine>>)
          /\ exitCode' = IF failed_count > 0 THEN "1" ELSE "0"
    /\ pc' = "exited"
    /\ UNCHANGED <<environ, config_str, parsed, accounts, exc, batchVars>>

\* main, lines 209-236, and the return of main
MainReport ==
    /\ pc = "returned"
    /\ \E ts \in Timestamps :
          LET text == format_results(ts, results)
              failed_count == Len(results) - SuccessCount(results)
              success_count == Len(results) - failed_count
          IN
          /\ now' = ts
          /\ report' = text
          /\ outfile' = IF Truthy(environ.GITHUB_OUTPUT)
                        THEN outfile \o OutputBlock(text)
                        ELSE outfile
          /\ stdout' = stdout \o Banner \o <<text>>
                \o (IF Truthy(environ.GITHUB_OUTPUT)
                    THEN <<>> ELSE <<SetOutputLine(text)>>)
                \o (IF failed_count > 0
                    THEN <<WarningLine(failed_count, success_count)>>
                    ELSE <<NoticeLine>>)
          /\ exitCode' = "0"
    /\ pc' = "exited"
    /\ UNCHANGED <<environ, config_str, parsed, accounts, exc, batchVars>>

\* main, lines 238-241: except Exception
MainExcept ==
    /\ pc = "raised"
    /\ stdout' = Append(stdout, ErrorLine(exc))
    /\ exitCode' = "1"
    /\ pc' = "exited"
    /\ UNCHANGED <<environ, config_str, parsed, accounts, exc, now, report,
                   outfile, batchVars>>

ConfigLinePool == {<<"a">>, <<" ">>}

MainConfigs ==
    {Join(ls, <<"\n">>) : ls \in StrUpTo(ConfigLinePool, MaxConfigLines)}

InitMain ==
    /\ environ \in
          [URL : {JNull, JStr(<<>>), JStr(<<"https://airport.example">>)},
           CONFIG : {JNull} \cup {JStr(c) : c \in MainConfigs},
           GITHUB_OUTPUT : {JNull, JStr(<<"/tmp/github_output">>)}]
    /\ pc = "main"
    /\ config_str = <<>>
    /\ parsed = NotCalled
    /\ BatchIdle
    /\ now = <<>>
    /\ report = <<>>
    /\ stdout = <<>>
    /\ outfile = <<>>
    /\ exitCode = "running"

NextMain ==
    \/ MainStart
    \/ \E resp \in LoginResponses : Login(resp)
    \/ \E resp \in CheckinResponses : Checkin(resp)
    \/ BatchReturn
    \/ MainReport
    \/ MainExcept

SpecMain == InitMain /\ [][NextMain]_vars

----------------------------------------------------------------------------
(* Properties of main (SpecMain) *)

FailedCount == Cardinality({i \in 1..Len(results) : ~results[i].success})
SucceededCount == Cardinality({i \in 1..Len(results) : results[i].success})

Printed(line) == \E k \in 1..Len(stdout) : stdout[k] = line

IsMarker(line, marker) == line # <<>> /\ line[1] = marker

\* C9: once main has its accounts, the run ends with exit status 0 whatever
\* the accounts' Outcomes are: the batch is complete, the full report is
\* printed and handed on (output file, or the legacy marker), and the last
\* line is the notice marker when no Outcome failed and otherwise the warning
\* marker naming the failed and the succeeded count, which sum to the number
\* of accounts.
C9_PartialFailureNotFatal ==
    (pc = "exited" /\ accounts # <<>>) =>
        /\ exitCode = "0"
        /\ Len(results) = Len(accounts)
        /\ FailedCount + SucceededCount = Len(accounts)
        /\ report = format_results(now, results)
        /\ Printed(report)
        /\ IF Truthy(environ.GITHUB_OUTPUT)
           THEN outfile = <<"result<<EOF", "\n">> \o report \o <<"\n", "EOF", "\n">>
           ELSE Printed(<<"::set-output name=result::">> \o report)
        /\ stdout[Len(stdout)] =
              IF FailedCount = 0
              THEN <<"::notice::", "all accounts succeeded">>
              ELSE <<"::warning::">> \o IntStr(FailedCount)
                      \o <<" accounts failed, ">> \o IntStr(SucceededCount)
                      \o <<" accounts succeeded">>
        /\ \A k \in 1..Len(stdout) : ~IsMarker(stdout[k], "::error::")

C9_Witness ==
    /\ pc = "exited"
    /\ Len(accounts) = 2
    /\ FailedCount = 2
    /\ exitCode = "0"
    /\ IsMarker(stdout[Len(stdout)], "::warning::")

\* URL missing, CONFIG missing, or CONFIG malformed
FatalCondition ==
    \/ environ.URL \in {JNull, JStr(<<>>)}
    \/ environ.CONFIG \in {JNull, JStr(<<>>)}
    \/ LET n == Len(SplitLines(Strip(environ.CONFIG.v))) IN n = 0 \/ n % 2 = 1

NoPartialOutput ==
    /\ calls = <<>>
    /\ report = <<>>
    /\ outfile = <<>>
    /\ \A k \in 1..Len(stdout) :
          /\ ~IsMarker(stdout[k], "::set-output name=result::")
          /\ ~IsMarker(stdout[k], "checkin results - ")

\* C10: every fatal condition (URL missing, CONFIG missing, CONFIG
\* malformed) ends the process with a non-zero exit status and an "error"
\* marker on the output stream, and with no partial output: no HTTP request,
\* no report printed, written to the output file or emitted as the legacy
\* output marker.
C10_FatalConditions ==
    FatalCondition =>
        /\ NoPartialOutput
        /\ pc = "exited" =>
              /\ exitCode = "1"
              /\ \E k \in 1..Len(stdout) : IsMarker(stdout[k], "::error::")

----------------------------------------------------------------------------
(* The reader of the output file: lines `name<<DELIMITER`, the value's      *)
(* lines, and a line equal to the delimiter; the value is the lines in      *)
(* between, joined by line breaks.  Blank lines between blocks are skipped  *)
(* and any other line outside a block is an error.                          *)

ReadResult(ok, entries) == [ok |-> ok, entries |-> entries]

\* the first line from i on that equals the delimiter, or 0
RECURSIVE DelimiterFrom(_, _)
DelimiterFrom(lines, i) ==
    IF i > Len(lines) THEN 0
    ELSE IF lines[i] = <<"EOF">> THEN i
    ELSE DelimiterFrom(lines, i + 1)

RECURSIVE ReadFrom(_, _)
ReadFrom(lines, i) ==
    IF i > Len(lines) THEN ReadResult(TRUE, <<>>)
    ELSE IF lines[i] = <<>> THEN ReadFrom(lines, i + 1)
    ELSE IF lines[i] = <<"result<<EOF">>
    THEN LET j == DelimiterFrom(lines, i + 1) IN
         IF j = 0 THEN ReadResult(FALSE, <<>>)
         ELSE LET rest == ReadFrom(lines, j + 1)
                  entry == [name |-> "result",
                            value |-> Join(SubSeq(lines, i + 1, j - 1), <<"\n">>)]
              IN  ReadResult(rest.ok, <<entry>> \o rest.entries)
    ELSE ReadResult(FALSE, <<>>)

ReadOutputs(text) == ReadFrom(SplitLines(text), 1)

\* C12: when the output path is available, main appends exactly one block
\* (result<<EOF, the report, EOF) to it, and for every report text, also one
\* whose messages hold line breaks or a line equal to the sentinel, the
\* reader of the block format recovers exactly one named value, 'result',
\* equal to the full report.
C12_OutputRoundTrip ==
    (pc = "exited" /\ accounts # <<>> /\ Truthy(environ.GITHUB_OUTPUT)) =>
        /\ outfile = <<"result<<EOF", "\n">> \o report \o <<"\n", "EOF", "\n">>
        /\ ReadOutputs(outfile) =
              ReadResult(TRUE, << [name |-> "result", value |-> report] >>)

\* the same, for reports none of whose lines is the sentinel
C12_RoundTripWithoutSentinelLine ==
    (/\ pc = "exited" /\ accounts # <<>> /\ Truthy(environ.GITHUB_OUTPUT)
     /\ \A k \in 1..Len(SplitLines(report)) : SplitLines(report)[k] # <<"EOF">>) =>
        /\ outfile = <<"result<<EOF", "\n">> \o report \o <<"\n", "EOF", "\n">>
        /\ ReadOutputs(outfile) =
              ReadResult(TRUE, << [name |-> "result", value |-> report] >>)

----------------------------------------------------------------------------
(* main never formats an empty Outcome sequence (SpecMain) *)

EmptyConfig == environ.CONFIG \in {JNull, JStr(<<>>)}

WhitespaceOnlyConfig ==
    /\ environ.CONFIG.t = "str"
    /\ environ.CONFIG.v # <<>>
    /\ \A k \in 1..Len(environ.CONFIG.v) :
          environ.CONFIG.v[k] \in Whitespace \cup LineBreaks

NothingProcessed ==
    /\ accounts = <<>>
    /\ calls = <<>>
    /\ results = <<>>
    /\ report = <<>>
    /\ outfile = <<>>

\* C14: whenever main reaches format_results the Outcome sequence is not
\* empty: an empty CONFIG is rejected as missing and a whitespace-only CONFIG
\* as malformed (zero lines), both with exit status 1 and before any account
\* is processed, so no run of main gives the "no checkin results" text or a
\* report whose aggregate line has total 0.
C14_FormatterNeverSeesEmpty ==
    /\ pc \in {"login", "checkin", "returned"} => accounts # <<>>
    /\ pc = "returned" => results # <<>>
    /\ report # <<>> =>
          /\ results # <<>>
          /\ report # NoResultsText
          /\ ~Contains(report, NoResultsText)
          /\ Len(SplitLines(report)) >= 2
          /\ \A s \in 0..MaxAccounts :
                SplitLines(report)[2] # AggregateLine(0, s)
          /\ ~Contains(report, <<"total: ", "0">>)
    /\ (Truthy(environ.URL) /\ EmptyConfig) =>
          /\ NothingProcessed
          /\ pc = "exited" =>
                /\ exitCode = "1"
                /\ stdout = <<MissingLine("CONFIG")>>
    /\ (Truthy(environ.URL) /\ WhitespaceOnlyConfig) =>
          /\ NothingProcessed
          /\ pc = "exited" =>
                /\ exitCode = "1"
                /\ stdout = <<ErrorLine(ConfigFormatError)>>

C14_Witness ==
    /\ pc = "exited"
    /\ Truthy(environ.URL)
    /\ environ.CONFIG = JStr(<<" ", "\n", " ">>)
    /\ exitCode = "1"
    /\ stdout = <<ErrorLine(ConfigFormatError)>>
    /\ NothingProcessed

=============================================================================
